---------------------------- MODULE Spec2Model ----------------------------
(***************************************************************************)
(* Model of the stateful borrower registry (class StatefulBorrowers) of    *)
(* the liquidation bot: the watched-borrower map, the borrow index table,  *)
(* the per-kind event subscriptions with their 'data' and 'changed'        *)
(* callbacks, push (register) with its un-awaited hydration, and scan; and *)
(* of the transaction manager's Wallet: init, signAndSend, minGasPriceFor. *)
(*                                                                         *)
(* The class StatefulBorrower (one borrower's replica: its event mutators, *)
(* fetchAll and expectedRevenue) is not part of the available sources; it  *)
(* is modelled from the written specification (sections 4.3 and 4.5).      *)
(***************************************************************************)
EXTENDS Integers, Sequences, FiniteSets, TLC

(***************************************************************************)
(* Bounds of the model.                                                    *)
(***************************************************************************)
\* Number of event callbacks ('data' or 'changed') delivered in one behaviour.
MaxEvents == 2
\* Number of calls of init() made in one behaviour.
MaxInits == 2

\* Two of the eleven cTokenSymbols; every per-symbol loop of the code runs
\* over this set.
cTokenSymbols == {"cDAI", "cETH"}

\* The address of market symbol's cToken contract (event.address).
CTokenAddress(symbol) == IF symbol = "cDAI" THEN "0xc1" ELSE "0xc2"

\* Account addresses that can be pushed / appear in events.
Users == {"0xa1", "0xb2"}

\* Every address an event can carry.
Addresses == Users \cup {CTokenAddress(s) : s \in cTokenSymbols}

\* Token amounts carried by events.
Amounts == {1, 2}
\* Borrow indices carried by events.
Indices == {1, 2}
\* The borrow index the chain holds at the head block init() reads.
HeadIndices == {1}

VARIABLES
    borrowers,      \* this.borrowers: address -> StatefulBorrower
    keys,           \* insertion order of this.borrowers (Object.keys order)
    borrowIndices,  \* this.borrowIndices: symbol -> Big
    hydrating,      \* addresses whose fetchAll(block) is in flight
    initPc,         \* how far init() has come: "new" (never called),
                    \* "fetching" (called, nothing subscribed yet),
                    \* "subscribed" (subscribe() has run at least once)
    initPending,    \* one entry per init() call in flight: the symbols
                    \* whose fetchBorrowIndices read has not returned
                    \* (none left: the call is about to subscribe)
    subscriptions,  \* number of subscribe() calls made: each registered
                    \* its own listeners for every kind of log
    nEvents,        \* number of event callbacks delivered so far
    last,           \* the operation performed by the last step
    pre,            \* this.borrowers as it was before the last 'data' event
    scanPc,         \* position of scan(): "idle", "fetching", "done"
                    \* (returned), "rejected" (thrown)
    exchangeRates,  \* symbol -> rate, for the fetchExchangeRates reads done
    candidates,     \* the list scan() returned
    evaluated,      \* address -> what scan's evaluation of it found
    interleaved,    \* an event callback ran between scan's reads
    scanned,        \* the scan that returned last, where scans are
                    \* recorded: what it evaluated, and its list
    opts,           \* Wallet.opts: the transaction options, or undefined
    gasPrices,      \* Wallet.gasPrices: nonce -> gas price
    walletPc,       \* position of Wallet.init(): "new", "awaiting", "resolved"
    chainID,        \* the chain ID Wallet.init() was answered
    sends,          \* the signAndSend calls made, in order
    minGasPrice     \* what the last minGasPriceFor call returned, and for
                    \* which nonce

scanVars == <<scanPc, exchangeRates, candidates, evaluated>>

\* The fields of the Wallet and the record of its calls.
walletVars == <<opts, gasPrices, walletPc, chainID, sends, minGasPrice>>

vars == <<borrowers, keys, borrowIndices, hydrating, initPc, initPending,
          subscriptions, nEvents, last, pre, scanPc, exchangeRates,
          candidates, evaluated,
          interleaved, scanned, opts, gasPrices, walletPc, chainID, sends,
          minGasPrice>>

(***************************************************************************)
(* StatefulBorrower, modelled from the specification (section 3, 4.3).     *)
(***************************************************************************)
\* new StatefulBorrower(address, provider, cTokens): an empty replica.
NewBorrower ==
    [supplied               |-> [s \in cTokenSymbols |-> 0],
     borrowPrincipal        |-> [s \in cTokenSymbols |-> 0],
     borrowIndexAtPrincipal |-> [s \in cTokenSymbols |-> 0]]

\* Saturating subtraction used by Redeem, LiquidateBorrow and Transfer.
SatSub(a, b) == IF a >= b THEN a - b ELSE 0

\* The market whose cToken contract has the given address.
SymbolFor(address) == CHOOSE s \in cTokenSymbols : CTokenAddress(s) = address

\* Mint(minter, mintTokens): supplied[m] += mintTokens.
onMint(st, ev) ==
    [st EXCEPT !.supplied[ev.symbol] = @ + ev.mintTokens]

\* Redeem(redeemer, redeemTokens): supplied[m] -= redeemTokens, saturating.
onRedeem(st, ev) ==
    [st EXCEPT !.supplied[ev.symbol] = SatSub(@, ev.redeemTokens)]

\* Borrow(borrower, .., accountBorrowsNew, borrowIndexNow).
onBorrow(st, ev) ==
    [st EXCEPT !.borrowPrincipal[ev.symbol] = ev.accountBorrows,
               !.borrowIndexAtPrincipal[ev.symbol] = ev.borrowIndex]

\* RepayBorrow: same shape as Borrow.
onRepayBorrow(st, ev) ==
    [st EXCEPT !.borrowPrincipal[ev.symbol] = ev.accountBorrows,
               !.borrowIndexAtPrincipal[ev.symbol] = ev.borrowIndex]

\* LiquidateBorrow(borrower, seizeTokens, cTokenCollateral):
\* supplied[cTokenCollateral] -= seizeTokens, saturating.
onLiquidateBorrow(st, ev) ==
    [st EXCEPT !.supplied[SymbolFor(ev.cTokenCollateral)] =
                   SatSub(@, ev.seizeTokens)]

\* Transfer(from, to, amount) seen by the replica of address self: the
\* sender's side is debited (saturating) and the receiver's side credited.
onTransfer(st, self, ev) ==
    LET debited == IF self = ev.from
                   THEN [st EXCEPT !.supplied[ev.symbol] =
                                       SatSub(@, ev.amount)]
                   ELSE st
    IN  IF self = ev.to
        THEN [debited EXCEPT !.supplied[ev.symbol] = @ + ev.amount]
        ELSE debited

\* fetchAll(block) completing: the replica takes the account snapshot of
\* every market (one full snapshot).
onSnapshot(st, snap) ==
    [supplied               |-> [s \in cTokenSymbols |-> snap[s].cTokenBalance],
     borrowPrincipal        |-> [s \in cTokenSymbols |-> snap[s].borrowBalance],
     borrowIndexAtPrincipal |-> [s \in cTokenSymbols |-> snap[s].borrowIndex]]

\* What getAccountSnapshot can return for one market.
MarketSnapshots ==
    {[cTokenBalance |-> 0, borrowBalance |-> 0, borrowIndex |-> 0],
     [cTokenBalance |-> 2, borrowBalance |-> 1, borrowIndex |-> 1]}

\* The full snapshots a hydration can read.
Snapshots == {[s \in cTokenSymbols |-> m] : m \in MarketSnapshots}
\* The full snapshots read where scan is explored: no position, a position
\* in one market, and a debt left without any collateral.
ScanSnapshots ==
    {[s \in cTokenSymbols |->
        [cTokenBalance |-> 0, borrowBalance |-> 0, borrowIndex |-> 0]]} \cup
    {[s \in cTokenSymbols |->
        IF s = m THEN [cTokenBalance |-> 2, borrowBalance |-> 1,
                       borrowIndex |-> 1]
        ELSE [cTokenBalance |-> 0, borrowBalance |-> 0, borrowIndex |-> 0]] :
     m \in cTokenSymbols} \cup
    {[s \in cTokenSymbols |->
        IF s = "cDAI" THEN [cTokenBalance |-> 0, borrowBalance |-> 1,
                            borrowIndex |-> 1]
        ELSE [cTokenBalance |-> 0, borrowBalance |-> 0, borrowIndex |-> 0]]}

(***************************************************************************)
(* Events delivered by the subscriptions.                                  *)
(***************************************************************************)
AccrueInterestEvents ==
    [kind : {"AccrueInterest"}, symbol : cTokenSymbols, borrowIndex : Indices]
MintEvents ==
    [kind : {"Mint"}, symbol : cTokenSymbols, minter : Users,
     mintTokens : Amounts]
RedeemEvents ==
    [kind : {"Redeem"}, symbol : cTokenSymbols, redeemer : Users,
     redeemTokens : Amounts]
BorrowEvents ==
    [kind : {"Borrow"}, symbol : cTokenSymbols, borrower : Users,
     accountBorrows : {2}, borrowIndex : Indices]
RepayBorrowEvents ==
    [kind : {"RepayBorrow"}, symbol : cTokenSymbols, borrower : Users,
     accountBorrows : {0}, borrowIndex : {2}]
LiquidateBorrowEvents ==
    [kind : {"LiquidateBorrow"}, symbol : cTokenSymbols, borrower : Users,
     seizeTokens : {1},
     cTokenCollateral : {CTokenAddress(s) : s \in cTokenSymbols}]
TransferEvents ==
    {ev \in [kind : {"Transfer"}, symbol : cTokenSymbols, from : Addresses,
             to : Addresses, amount : Amounts] :
        /\ ev.from \in Users \/ ev.from = CTokenAddress(ev.symbol)
        /\ ev.to \in Users \/ ev.to = CTokenAddress(ev.symbol)
        /\ ~(ev.from = CTokenAddress(ev.symbol) /\
             ev.to = CTokenAddress(ev.symbol))}

\* No operation yet / a step that is not an event callback.
NoEvent == [kind |-> "none"]
NoBorrowers == [a \in {} |-> NewBorrower]

NoRates == [s \in {} |-> 0]
NoEvaluation == [a \in {} |-> 0]

\* No scan has returned.
NoScan == [returned |-> FALSE]

\* The value of a field never assigned (undefined).
Undefined == [undefined |-> TRUE]
\* this.gasPrices = {}
NoGasPrices == [n \in {} |-> 0]

\* scan() has received at least one exchange rate and has not yet read the
\* borrow indices and the borrowers.
ScanHasRead == scanPc = "fetching" /\ DOMAIN exchangeRates # {}

\* An address is a key of this.borrowers (the 'in' operator).
Watched(address) == address \in DOMAIN borrowers

(***************************************************************************)
(* constructor                                                             *)
(***************************************************************************)
Init ==
    /\ borrowers = NoBorrowers
    /\ keys = <<>>
    /\ borrowIndices = [s \in cTokenSymbols |-> 0]
    /\ hydrating = {}
    /\ initPc = "new"
    /\ initPending = <<>>
    /\ subscriptions = 0
    /\ nEvents = 0
    /\ last = [op |-> "constructor", ev |-> NoEvent]
    /\ pre = NoBorrowers
    /\ scanPc = "idle"
    /\ exchangeRates = NoRates
    /\ candidates = <<>>
    /\ evaluated = NoEvaluation
    /\ interleaved = FALSE
    /\ scanned = NoScan
    /\ opts = Undefined
    /\ gasPrices = NoGasPrices
    /\ walletPc = "new"
    /\ chainID = 0
    /\ sends = <<>>
    /\ minGasPrice = Undefined

(***************************************************************************)
(* init(): read the head block, start one borrowIndex read per market,     *)
(* await them all, then subscribe.  Nothing keeps init()                   *)
(* from being called again, while an earlier call is in flight or after it *)
(* has subscribed.                                                         *)
(***************************************************************************)
\* init() without the await of Promise.all: subscribe(block) runs as soon
\* as the reads have been started.
InitCallNotAwaiting ==
    /\ subscriptions + Len(initPending) < MaxInits
    /\ initPending' = Append(initPending, cTokenSymbols)
    /\ subscriptions' = subscriptions + 1
    /\ initPc' = "subscribed"
    /\ last' = [op |-> "init", ev |-> NoEvent]
    /\ pre' = NoBorrowers
    /\ UNCHANGED <<borrowers, keys, borrowIndices, hydrating, nEvents>>
    /\ UNCHANGED <<scanVars, interleaved>>
    /\ UNCHANGED <<walletVars, scanned>>

\* init() is called and getBlockNumber() answers: the reads are started.
InitCall ==
    /\ subscriptions + Len(initPending) < MaxInits
    /\ initPending' = Append(initPending, cTokenSymbols)
    /\ initPc' = IF initPc = "new" THEN "fetching" ELSE initPc
    /\ last' = [op |-> "init", ev |-> NoEvent]
    /\ pre' = NoBorrowers
    /\ UNCHANGED <<borrowers, keys, borrowIndices, hydrating, subscriptions,
                   nEvents>>
    /\ UNCHANGED <<scanVars, interleaved>>
    /\ UNCHANGED <<walletVars, scanned>>

\* The sequence without its k-th element.
Without(seq, k) ==
    [i \in 1..(Len(seq) - 1) |-> IF i < k THEN seq[i] ELSE seq[i + 1]]

\* One promise of fetchBorrowIndices(block) resolving, for the init() call
\* that is the call-th of those in flight: the read has returned and the
\* entry is written.  A call whose reads have all been written stays in
\* flight, with nothing pending, until its Promise.all has resolved.
FetchBorrowIndexOf(call, symbol, index) ==
    /\ call \in 1..Len(initPending)
    /\ symbol \in initPending[call]
    /\ borrowIndices' = [borrowIndices EXCEPT ![symbol] = index]
    /\ initPending' = [initPending EXCEPT ![call] = @ \ {symbol}]
    /\ last' = [op |-> "fetchBorrowIndices", ev |-> NoEvent]
    /\ pre' = NoBorrowers
    /\ UNCHANGED <<borrowers, keys, hydrating, initPc, subscriptions,
                   nEvents>>
    /\ UNCHANGED <<scanVars, interleaved>>
    /\ UNCHANGED <<walletVars, scanned>>

FetchBorrowIndex(symbol, index) ==
    \E call \in 1..Len(initPending) : FetchBorrowIndexOf(call, symbol, index)

\* init() resumes after its await of Promise.all, every index of the call
\* written: subscribe(block) makes one subscription per kind of log and
\* registers the call's own listeners on them.
subscribe(call) ==
    /\ call \in 1..Len(initPending)
    /\ initPending[call] = {}
    /\ initPending' = Without(initPending, call)
    /\ subscriptions' = subscriptions + 1
    /\ initPc' = "subscribed"
    /\ last' = [op |-> "subscribe", ev |-> NoEvent]
    /\ pre' = NoBorrowers
    /\ UNCHANGED <<borrowers, keys, borrowIndices, hydrating, nEvents>>
    /\ UNCHANGED <<scanVars, interleaved>>
    /\ UNCHANGED <<walletVars, scanned>>

(***************************************************************************)
(* push(addresses)                                                         *)
(***************************************************************************)
\* The forEach body for one address: a fresh StatefulBorrower replaces
\* whatever the map held, and its fetchAll(block) is started, not awaited.
\* PushOne listing the address again when it is already a key.
PushOneListingAgain(state, address) ==
    [borrowers |-> [a \in DOMAIN state.borrowers \cup {address} |->
                      IF a = address THEN NewBorrower
                      ELSE state.borrowers[a]],
     keys      |-> Append(state.keys, address),
     hydrating |-> state.hydrating \cup {address}]

PushOne(state, address) ==
    [borrowers |-> IF address \in DOMAIN state.borrowers
                   THEN [state.borrowers EXCEPT ![address] = NewBorrower]
                   ELSE [a \in DOMAIN state.borrowers \cup {address} |->
                           IF a = address THEN NewBorrower
                           ELSE state.borrowers[a]],
     keys      |-> IF address \in DOMAIN state.borrowers
                   THEN state.keys
                   ELSE Append(state.keys, address),
     hydrating |-> state.hydrating \cup {address}]

RECURSIVE PushAll(_, _)
PushAll(state, addresses) ==
    IF addresses = <<>> THEN state
    ELSE PushAll(PushOne(state, Head(addresses)), Tail(addresses))

\* Address lists push is called with.
PushLists == {<<a>> : a \in Users} \cup
             {<<a, b>> : a \in Users, b \in Users}

Push(addresses) ==
    LET after == PushAll([borrowers |-> borrowers, keys |-> keys,
                          hydrating |-> hydrating], addresses)
    IN  /\ borrowers' = after.borrowers
        /\ keys' = after.keys
        /\ hydrating' = after.hydrating
        /\ last' = [op |-> "push", ev |-> NoEvent]
        /\ pre' = NoBorrowers
        /\ UNCHANGED <<borrowIndices, initPc, initPending, subscriptions,
                   nEvents>>
        /\ UNCHANGED <<scanVars, interleaved>>
        /\ UNCHANGED <<walletVars, scanned>>

\* A borrower's fetchAll(block) completing, some time after push returned.
FetchDone(address, snap) ==
    /\ address \in hydrating
    /\ borrowers' = [borrowers EXCEPT ![address] = onSnapshot(@, snap)]
    /\ hydrating' = hydrating \ {address}
    /\ last' = [op |-> "fetch", ev |-> NoEvent]
    /\ pre' = NoBorrowers
    /\ UNCHANGED <<keys, borrowIndices, initPc, initPending, subscriptions,
                   nEvents>>
    /\ UNCHANGED <<scanVars, interleaved>>
    /\ UNCHANGED <<walletVars, scanned>>

(***************************************************************************)
(* subscribe(block): the callbacks                                         *)
(***************************************************************************)
\* The event is the Transfer a cToken emits along with the Mint or Redeem
\* that the previous 'data' callback delivered.
PairedTransfer(ev) ==
    /\ last.op = "data"
    /\ ev.kind = "Transfer"
    /\ last.ev.kind \in {"Mint", "Redeem"}
    /\ ev.symbol = last.ev.symbol
    /\ \/ /\ last.ev.kind = "Mint"
          /\ ev.from = CTokenAddress(ev.symbol)
          /\ ev.to = last.ev.minter
          /\ ev.amount = last.ev.mintTokens
       \/ /\ last.ev.kind = "Redeem"
          /\ ev.from = last.ev.redeemer
          /\ ev.to = CTokenAddress(ev.symbol)
          /\ ev.amount = last.ev.redeemTokens

\* One 'data' callback: the subscription that the sub-th call of
\* subscribe() made for the log's kind delivers the log to its listener.
\* Every subscription delivers on its own, one callback per delivery.
Data(ev) ==
    /\ subscriptions > 0
    /\ nEvents < MaxEvents
    /\ nEvents' = nEvents + 1
    /\ \E sub \in 1..subscriptions :
          last' = [op |-> "data", ev |-> ev,
                   paired |-> IF PairedTransfer(ev) THEN last.ev.kind
                              ELSE "no",
                   sub |-> sub]
    /\ pre' = borrowers
    /\ interleaved' = (interleaved \/ ScanHasRead)
    /\ UNCHANGED <<keys, hydrating, initPc, initPending, subscriptions,
                   scanVars>>
    /\ UNCHANGED <<walletVars, scanned>>

\* One 'changed' callback: a subscription delivers the log to its 'changed'
\* listener (the node reports it removed by a reorganisation).  The
\* callbacks hold no record of what 'data' delivered before.
Changed(ev) ==
    /\ subscriptions > 0
    /\ nEvents < MaxEvents
    /\ nEvents' = nEvents + 1
    /\ \E sub \in 1..subscriptions :
          last' = [op |-> "changed", ev |-> ev, sub |-> sub]
    /\ pre' = pre
    /\ interleaved' = (interleaved \/ ScanHasRead)
    /\ UNCHANGED <<keys, hydrating, initPc, initPending, subscriptions,
                   scanVars>>
    /\ UNCHANGED <<walletVars, scanned>>

\* The bodies of the callbacks: indices is this.borrowIndices, replicas is
\* this.borrowers.
AccrueInterestListener(indices, ev) ==
    [indices EXCEPT ![ev.symbol] = ev.borrowIndex]

MintListener(replicas, ev) ==
    IF ev.minter \in DOMAIN replicas
    THEN [replicas EXCEPT ![ev.minter] = onMint(@, ev)]
    ELSE replicas

\* RedeemListener handing the log to the mutator of Mint.
RedeemListenerCallingOnMint(replicas, ev) ==
    IF ev.redeemer \in DOMAIN replicas
    THEN [replicas EXCEPT ![ev.redeemer] =
             onMint(@, [symbol |-> ev.symbol, mintTokens |-> ev.redeemTokens])]
    ELSE replicas

RedeemListener(replicas, ev) ==
    IF ev.redeemer \in DOMAIN replicas
    THEN [replicas EXCEPT ![ev.redeemer] = onRedeem(@, ev)]
    ELSE replicas

BorrowListener(replicas, ev) ==
    IF ev.borrower \in DOMAIN replicas
    THEN [replicas EXCEPT ![ev.borrower] = onBorrow(@, ev)]
    ELSE replicas

RepayBorrowListener(replicas, ev) ==
    IF ev.borrower \in DOMAIN replicas
    THEN [replicas EXCEPT ![ev.borrower] = onRepayBorrow(@, ev)]
    ELSE replicas

LiquidateBorrowListener(replicas, ev) ==
    IF ev.borrower \in DOMAIN replicas
    THEN [replicas EXCEPT ![ev.borrower] = onLiquidateBorrow(@, ev)]
    ELSE replicas

TransferListener(replicas, ev) ==
    LET afterFrom == IF ev.from \in DOMAIN replicas
                     THEN [replicas EXCEPT ![ev.from] =
                                              onTransfer(@, ev.from, ev)]
                     ELSE replicas
    IN  IF ev.to \in DOMAIN afterFrom
        THEN [afterFrom EXCEPT ![ev.to] = onTransfer(@, ev.to, ev)]
        ELSE afterFrom

\* The listener of the delivering subscription runs, once.
AccrueInterestHandler(ev) ==
    borrowIndices' = AccrueInterestListener(borrowIndices, ev)

\* MintHandler without the membership test: the replica is created on
\* demand.
MintHandlerUnguarded(ev) ==
    borrowers' = [a \in DOMAIN borrowers \cup {ev.minter} |->
                    IF a = ev.minter
                    THEN onMint(IF Watched(a) THEN borrowers[a]
                                ELSE NewBorrower, ev)
                    ELSE borrowers[a]]

MintHandler(ev) ==
    borrowers' = MintListener(borrowers, ev)

RedeemHandler(ev) ==
    borrowers' = RedeemListener(borrowers, ev)

BorrowHandler(ev) ==
    borrowers' = BorrowListener(borrowers, ev)

RepayBorrowHandler(ev) ==
    borrowers' = RepayBorrowListener(borrowers, ev)

LiquidateBorrowHandler(ev) ==
    borrowers' = LiquidateBorrowListener(borrowers, ev)

TransferHandler(ev) ==
    borrowers' = TransferListener(borrowers, ev)

AccrueInterestData(ev) ==
    /\ Data(ev)
    /\ AccrueInterestHandler(ev)
    /\ UNCHANGED borrowers

MintData(ev) == Data(ev) /\ MintHandler(ev) /\ UNCHANGED borrowIndices
MintChanged(ev) == Changed(ev) /\ MintHandler(ev) /\ UNCHANGED borrowIndices

RedeemData(ev) == Data(ev) /\ RedeemHandler(ev) /\ UNCHANGED borrowIndices
RedeemChanged(ev) ==
    Changed(ev) /\ RedeemHandler(ev) /\ UNCHANGED borrowIndices

BorrowData(ev) == Data(ev) /\ BorrowHandler(ev) /\ UNCHANGED borrowIndices
BorrowChanged(ev) ==
    Changed(ev) /\ BorrowHandler(ev) /\ UNCHANGED borrowIndices

RepayBorrowData(ev) ==
    Data(ev) /\ RepayBorrowHandler(ev) /\ UNCHANGED borrowIndices
RepayBorrowChanged(ev) ==
    Changed(ev) /\ RepayBorrowHandler(ev) /\ UNCHANGED borrowIndices

LiquidateBorrowData(ev) ==
    Data(ev) /\ LiquidateBorrowHandler(ev) /\ UNCHANGED borrowIndices
LiquidateBorrowChanged(ev) ==
    Changed(ev) /\ LiquidateBorrowHandler(ev) /\ UNCHANGED borrowIndices

TransferData(ev) == Data(ev) /\ TransferHandler(ev) /\ UNCHANGED borrowIndices
TransferChanged(ev) ==
    Changed(ev) /\ TransferHandler(ev) /\ UNCHANGED borrowIndices

(***************************************************************************)
(* Big (big.js): decimal numbers.  A value is kept as the fraction        *)
(* <<n, d>> in lowest terms, d > 0, that the decimal equals.  plus, minus  *)
(* and times are exact; div keeps Big.DP decimal places of the quotient    *)
(* and cuts the rest off (Big.RM = 0), and throws when the divisor is 0.   *)
(***************************************************************************)
\* Big.DP: the decimal places a quotient keeps.
DP == 40

RECURSIVE GCD(_, _)
GCD(a, b) == IF b = 0 THEN a ELSE GCD(b, a % b)

Abs(n) == IF n < 0 THEN -n ELSE n

Big(n, d) ==
    LET g == GCD(Abs(n), d)
    IN  IF n = 0 THEN <<0, 1>> ELSE <<n \div g, d \div g>>

plus(x, y) == Big(x[1] * y[2] + y[1] * x[2], x[2] * y[2])
minus(x, y) == Big(x[1] * y[2] - y[1] * x[2], x[2] * y[2])
times(x, y) == Big(x[1] * y[1], x[2] * y[2])

\* How many times the factor p divides n (n > 0).
RECURSIVE Exponent(_, _)
Exponent(n, p) == IF n % p = 0 THEN 1 + Exponent(n \div p, p) ELSE 0

RECURSIVE Power(_, _)
Power(b, e) == IF e = 0 THEN 1 ELSE b * Power(b, e - 1)

\* The number of decimal places of the fraction q, when it is a decimal of
\* at most DP places: its denominator is 2^i * 5^j with i, j <= DP.
HasDecimalPlaces(q) ==
    LET i == Exponent(q[2], 2)
        j == Exponent(q[2], 5)
    IN  /\ i <= DP
        /\ j <= DP
        /\ q[2] = Power(2, i) * Power(5, j)

\* The quotient q cut off after DP decimal places, towards zero.  A
\* quotient that is a decimal of at most DP places is kept as it is; the
\* quantities divided in this model all have such quotients (10^DP is
\* beyond the integers TLC computes with).
RoundDown(q) ==
    IF HasDecimalPlaces(q) THEN q
    ELSE LET sign == IF q[1] < 0 THEN -1 ELSE 1
         IN  Big(sign * ((Abs(q[1]) * Power(10, DP)) \div q[2]),
                 Power(10, DP))

\* What div throws for a zero divisor.
DivisionByZero == [thrown |-> "[big.js] Division by zero"]

div(x, y) ==
    IF y[1] = 0 THEN DivisionByZero
    ELSE RoundDown(Big((IF y[1] < 0 THEN -1 ELSE 1) * x[1] * y[2],
                       x[2] * Abs(y[1])))

lt(x, y) == x[1] * y[2] < y[1] * x[2]
gt(x, y) == lt(y, x)
BigMin(x, y) == IF lt(y, x) THEN y ELSE x

\* toNumber(): the IEEE-754 double nearest to the decimal.  A double is
\* kept as the decimal it is the nearest double of: it is 0 for the decimal
\* 0 only, and otherwise has the decimal's sign (no decimal met here is
\* below the smallest double).
toNumber(x) == [nearest |-> x]

(***************************************************************************)
(* The collaborators scan() is handed, and what the chain can answer.      *)
(***************************************************************************)
\* exchangeRateStored() of one market.
ExchangeRateValues == {Big(1, 2), Big(1, 1)}

\* StatefulComptroller: close factor, liquidation incentive, collateral
\* factors, and the markets the accounts have entered as collateral.
Comptrollers ==
    [closeFactor : {Big(1, 2)},
     liquidationIncentive : {Big(5, 4)},
     collateralFactor : {[s \in cTokenSymbols |-> Big(3, 4)]},
     entered : {cTokenSymbols}]

\* PriceLedger: a price per market, and the symbols whose oracle messages
\* are stale (no postable attestation).
PriceLedgers ==
    [price : {[s \in cTokenSymbols |-> Big(1, 1)]},
     stale : {{}, {"cETH"}}]

\* The value of "no result" (null).
Null == [null |-> TRUE]

\* priceLedger.getPostableFormat(symbols, edges): null when a needed
\* attestation is stale.
getPostableFormat(priceLedger, symbols) ==
    IF symbols \cap priceLedger.stale # {} THEN Null
    ELSE [postable |-> symbols]

\* Position of a symbol in the enumeration of markets (ties go to the
\* lowest).
SymbolRank(symbol) == IF symbol = "cDAI" THEN 1 ELSE 2

\* The symbol of S with the largest value, the lowest symbol on a tie.
ArgMax(value, S) ==
    CHOOSE s \in S : \A t \in S :
        \/ gt(value[s], value[t])
        \/ value[s] = value[t] /\ SymbolRank(s) <= SymbolRank(t)

RECURSIVE Sum(_, _)
Sum(value, S) ==
    IF S = {} THEN Big(0, 1)
    ELSE LET s == CHOOSE t \in S : TRUE
         IN  plus(value[s], Sum(value, S \ {s}))

\* StatefulBorrower.expectedRevenue (specification, section 4.5): null for
\* an account with no debt, else the health, the markets to repay and to
\* seize, the expected revenue and the symbols to attest.  A division by
\* zero is thrown to the caller.
expectedRevenue(st, comptroller, priceLedger, rates, indices) ==
    LET supplyEth == [s \in cTokenSymbols |->
            times(times(Big(st.supplied[s], 1), rates[s]),
                  priceLedger.price[s])]
        borrowUnderlying == [s \in cTokenSymbols |->
            IF st.borrowPrincipal[s] = 0 THEN Big(0, 1)
            ELSE div(times(Big(st.borrowPrincipal[s], 1),
                           Big(indices[s], 1)),
                     Big(st.borrowIndexAtPrincipal[s], 1))]
        borrowEth == [s \in cTokenSymbols |->
            times(borrowUnderlying[s], priceLedger.price[s])]
        collateralEth == [s \in cTokenSymbols |->
            times(supplyEth[s], comptroller.collateralFactor[s])]
        totalCollateralEth == Sum(collateralEth, cTokenSymbols)
        totalBorrowEth == Sum(borrowEth, cTokenSymbols)
        repay == ArgMax(borrowEth, cTokenSymbols)
        seize == ArgMax(supplyEth, comptroller.entered)
        maxRepayEth == times(borrowEth[repay], comptroller.closeFactor)
        maxSeizeEth == BigMin(times(maxRepayEth,
                                    comptroller.liquidationIncentive),
                              supplyEth[seize])
    IN  IF DivisionByZero \in {borrowUnderlying[s] : s \in cTokenSymbols}
        THEN DivisionByZero
        ELSE IF totalBorrowEth = Big(0, 1) THEN Null
        ELSE IF comptroller.liquidationIncentive = Big(0, 1)
        THEN DivisionByZero
        ELSE [health      |-> div(totalCollateralEth, totalBorrowEth),
              repayCToken |-> repay,
              seizeCToken |-> seize,
              revenueETH  |-> minus(maxSeizeEth,
                                    div(maxSeizeEth,
                                        comptroller.liquidationIncentive)),
              symbols     |-> {repay, seize}]

(***************************************************************************)
(* scan(comptroller, priceLedger)                                          *)
(***************************************************************************)
\* ScanBorrower evaluating the debt at the index each principal was written
\* with, whatever the borrow index table holds.
ScanBorrowerAtPrincipalIndex(address, comptroller, priceLedger, rates) ==
    LET info == expectedRevenue(borrowers[address], comptroller, priceLedger,
                                rates,
                                borrowers[address].borrowIndexAtPrincipal)
    IN  IF info # Null /\ lt(info.health, Big(1, 1))
        THEN LET postable == getPostableFormat(priceLedger, info.symbols)
             IN  IF postable = Null THEN <<>>
                 ELSE <<[address         |-> address,
                         repayCToken     |-> info.repayCToken,
                         seizeCToken     |-> info.seizeCToken,
                         pricesToReport  |-> postable,
                         expectedRevenue |->
                             toNumber(div(info.revenueETH,
                                          Big(1000000, 1)))]>>
        ELSE <<>>

\* The forEach body for one address: the candidates it appends.
ScanBorrower(address, comptroller, priceLedger, rates) ==
    LET info == expectedRevenue(borrowers[address], comptroller, priceLedger,
                                rates, borrowIndices)
    IN  IF info # Null /\ lt(info.health, Big(1, 1))
        THEN LET postable == getPostableFormat(priceLedger, info.symbols)
             IN  IF postable = Null THEN <<>>
                 ELSE <<[address         |-> address,
                         repayCToken     |-> info.repayCToken,
                         seizeCToken     |-> info.seizeCToken,
                         pricesToReport  |-> postable,
                         expectedRevenue |->
                             toNumber(div(info.revenueETH,
                                          Big(1000000, 1)))]>>
        ELSE <<>>

\* The loop with the null attestation ending it (a break, not a return from
\* the callback).
RECURSIVE ScanBorrowersAbort(_, _, _, _)
ScanBorrowersAbort(addresses, comptroller, priceLedger, rates) ==
    IF addresses = <<>> THEN <<>>
    ELSE LET info == expectedRevenue(borrowers[Head(addresses)], comptroller,
                                     priceLedger, rates, borrowIndices)
         IN  IF /\ info # Null
                /\ lt(info.health, Big(1, 1))
                /\ getPostableFormat(priceLedger, info.symbols) = Null
             THEN <<>>
             ELSE ScanBorrower(Head(addresses), comptroller, priceLedger,
                               rates)
                  \o ScanBorrowersAbort(Tail(addresses), comptroller,
                                        priceLedger, rates)

\* Object.keys(this.borrowers).forEach(...), in key order.
RECURSIVE ScanBorrowers(_, _, _, _)
ScanBorrowers(addresses, comptroller, priceLedger, rates) ==
    IF addresses = <<>> THEN <<>>
    ELSE ScanBorrower(Head(addresses), comptroller, priceLedger, rates)
         \o ScanBorrowers(Tail(addresses), comptroller, priceLedger, rates)

\* What the evaluation of one borrower found, recorded beside the result:
\* null, or the info with the attestation looked up for it.
Evaluation(address, comptroller, priceLedger, rates) ==
    LET info == expectedRevenue(borrowers[address], comptroller, priceLedger,
                                rates, borrowIndices)
    IN  IF info = Null THEN Null
        ELSE [health     |-> info.health,
              revenueETH |-> info.revenueETH,
              postable   |-> getPostableFormat(priceLedger, info.symbols)]

\* The evaluation of some borrower throws.
Throws(comptroller, priceLedger, rates) ==
    \E a \in DOMAIN borrowers :
        expectedRevenue(borrowers[a], comptroller, priceLedger, rates,
                        borrowIndices) = DivisionByZero

\* scan() is called: the exchange-rate reads of every market are started.
ScanCall ==
    /\ scanPc # "fetching"
    /\ scanPc' = "fetching"
    /\ exchangeRates' = NoRates
    /\ candidates' = <<>>
    /\ evaluated' = NoEvaluation
    /\ interleaved' = FALSE
    /\ last' = [op |-> "scanCall", ev |-> NoEvent]
    /\ pre' = NoBorrowers
    /\ UNCHANGED <<borrowers, keys, borrowIndices, hydrating, initPc,
                   initPending, subscriptions, nEvents>>
    /\ UNCHANGED <<walletVars, scanned>>

\* One exchange-rate read returns; the others are still in flight.
ExchangeRateRead(symbol, rate) ==
    /\ scanPc = "fetching"
    /\ symbol \notin DOMAIN exchangeRates
    /\ DOMAIN exchangeRates \cup {symbol} # cTokenSymbols
    /\ exchangeRates' = [s \in DOMAIN exchangeRates \cup {symbol} |->
                           IF s = symbol THEN rate ELSE exchangeRates[s]]
    /\ last' = [op |-> "exchangeRate", ev |-> NoEvent]
    /\ pre' = NoBorrowers
    /\ UNCHANGED <<borrowers, keys, borrowIndices, hydrating, initPc,
                   initPending, subscriptions, nEvents, scanPc, candidates,
                   evaluated, interleaved>>
    /\ UNCHANGED <<walletVars, scanned>>

\* Scan storing the rates it read into the borrow index table.
ScanStoringRates(symbol, rate, comptroller, priceLedger) ==
    /\ scanPc = "fetching"
    /\ symbol \notin DOMAIN exchangeRates
    /\ DOMAIN exchangeRates \cup {symbol} = cTokenSymbols
    /\ exchangeRates' = [s \in cTokenSymbols |->
                           IF s = symbol THEN rate ELSE exchangeRates[s]]
    /\ borrowIndices' = [s \in cTokenSymbols |-> exchangeRates'[s][1]]
    /\ candidates' = ScanBorrowers(keys, comptroller, priceLedger,
                                   exchangeRates')
    /\ evaluated' = [a \in DOMAIN borrowers |->
                        Evaluation(a, comptroller, priceLedger,
                                   exchangeRates')]
    /\ scanPc' = "done"
    /\ last' = [op |-> "scan", ev |-> NoEvent]
    /\ pre' = NoBorrowers
    /\ UNCHANGED <<borrowers, keys, hydrating, initPc, initPending,
                   subscriptions, nEvents, interleaved>>
    /\ UNCHANGED walletVars

\* The last exchange-rate read returns: Promise.all resolves and scan runs
\* to its return in the same turn, reading the borrow indices and the
\* borrowers as they are now.  An exception thrown in the loop rejects the
\* promise scan returned: no list is returned.
Scan(symbol, rate, comptroller, priceLedger) ==
    /\ scanPc = "fetching"
    /\ symbol \notin DOMAIN exchangeRates
    /\ DOMAIN exchangeRates \cup {symbol} = cTokenSymbols
    /\ exchangeRates' = [s \in cTokenSymbols |->
                           IF s = symbol THEN rate ELSE exchangeRates[s]]
    /\ IF Throws(comptroller, priceLedger, exchangeRates')
       THEN /\ candidates' = <<>>
            /\ evaluated' = NoEvaluation
            /\ scanPc' = "rejected"
       ELSE /\ candidates' = ScanBorrowers(keys, comptroller, priceLedger,
                                           exchangeRates')
            /\ evaluated' = [a \in DOMAIN borrowers |->
                                Evaluation(a, comptroller, priceLedger,
                                           exchangeRates')]
            /\ scanPc' = "done"
    /\ last' = [op |-> "scan", ev |-> NoEvent]
    /\ pre' = NoBorrowers
    /\ UNCHANGED <<borrowers, keys, borrowIndices, hydrating, initPc,
                   initPending, subscriptions, nEvents, interleaved>>
    /\ UNCHANGED walletVars

Next ==
    \/ InitCall
    \/ \E s \in cTokenSymbols, i \in HeadIndices : FetchBorrowIndex(s, i)
    \/ \E call \in 1..MaxInits : subscribe(call)
    \/ \E l \in PushLists : Push(l)
    \/ \E a \in Users, snap \in Snapshots : FetchDone(a, snap)
    \/ \E ev \in AccrueInterestEvents : AccrueInterestData(ev)
    \/ \E ev \in MintEvents : MintData(ev)
    \/ \E ev \in MintEvents : MintChanged(ev)
    \/ \E ev \in RedeemEvents : RedeemData(ev)
    \/ \E ev \in RedeemEvents : RedeemChanged(ev)
    \/ \E ev \in BorrowEvents : BorrowData(ev)
    \/ \E ev \in BorrowEvents : BorrowChanged(ev)
    \/ \E ev \in RepayBorrowEvents : RepayBorrowData(ev)
    \/ \E ev \in RepayBorrowEvents : RepayBorrowChanged(ev)
    \/ \E ev \in LiquidateBorrowEvents : LiquidateBorrowData(ev)
    \/ \E ev \in LiquidateBorrowEvents : LiquidateBorrowChanged(ev)
    \/ \E ev \in TransferEvents : TransferData(ev)
    \/ \E ev \in TransferEvents : TransferChanged(ev)

Spec == Init /\ [][Next]_vars

\* The registry initialised once, at startup, by one call of init(), then
\* receiving the logs of index accruals, mints and borrows.
NextStartup ==
    \/ initPc = "new" /\ InitCall
    \/ \E s \in cTokenSymbols, i \in HeadIndices : FetchBorrowIndex(s, i)
    \/ \E call \in 1..MaxInits : subscribe(call)
    \/ \E a \in Users : Push(<<a>>)
    \/ \E a \in Users, snap \in Snapshots : FetchDone(a, snap)
    \/ \E ev \in AccrueInterestEvents : AccrueInterestData(ev)
    \/ \E ev \in MintEvents : MintData(ev)
    \/ \E ev \in BorrowEvents : BorrowData(ev)

SpecStartup == Init /\ [][NextStartup]_vars

\* The registry initialised once, receiving the logs of mints, redeems and
\* transfers as the cTokens emit them: a Transfer with the cToken contract
\* on one side only right after the Mint or Redeem it is paired with.
NextPaired ==
    \/ initPc = "new" /\ InitCall
    \/ \E s \in cTokenSymbols, i \in HeadIndices : FetchBorrowIndex(s, i)
    \/ \E call \in 1..MaxInits : subscribe(call)
    \/ \E a \in Users : Push(<<a>>)
    \/ \E a \in Users, snap \in Snapshots : FetchDone(a, snap)
    \/ \E ev \in MintEvents : MintData(ev)
    \/ \E ev \in RedeemEvents : RedeemData(ev)
    \/ \E ev \in TransferEvents :
           /\ CTokenAddress(ev.symbol) \in {ev.from, ev.to}
                 => PairedTransfer(ev)
           /\ TransferData(ev)

SpecPaired == Init /\ [][NextPaired]_vars

\* The registry with scan, initialised by one call of init(): pushes with
\* every snapshot, the index events, and scans interleaved with them.
NextScan ==
    \/ initPc = "new" /\ InitCall
    \/ \E s \in cTokenSymbols, i \in HeadIndices : FetchBorrowIndex(s, i)
    \/ \E call \in 1..MaxInits : subscribe(call)
    \/ \E l \in PushLists : Push(l)
    \/ \E a \in Users, snap \in ScanSnapshots : FetchDone(a, snap)
    \/ \E ev \in AccrueInterestEvents : AccrueInterestData(ev)
    \/ ScanCall
    \/ \E s \in cTokenSymbols, r \in ExchangeRateValues :
           ExchangeRateRead(s, r)
    \/ \E s \in cTokenSymbols, r \in ExchangeRateValues,
          c \in Comptrollers, p \in PriceLedgers :
           Scan(s, r, c, p) /\ UNCHANGED scanned

SpecScan == Init /\ [][NextScan]_vars

\* What a scan evaluates: the watched addresses in key order, their
\* replicas, the borrow index table, the exchange rates it read and the
\* collaborators it was handed.
ScanInputs(comptroller, priceLedger, rates) ==
    [keys          |-> keys,
     borrowers     |-> borrowers,
     borrowIndices |-> borrowIndices,
     exchangeRates |-> rates,
     comptroller   |-> comptroller,
     priceLedger   |-> priceLedger]

\* A scan returning, recorded: what it evaluated, the list it returned, and
\* whether the scan that returned before it evaluated the same.
ScanRecorded(symbol, rate, comptroller, priceLedger) ==
    /\ Scan(symbol, rate, comptroller, priceLedger)
    /\ scanned' =
          LET inputs == ScanInputs(comptroller, priceLedger, exchangeRates')
          IN  [returned   |-> scanPc' = "done",
               inputs     |-> inputs,
               candidates |-> candidates',
               repeated   |-> scanned.returned /\ scanned.inputs = inputs]

\* The one account pushed where scans are recorded, and the snapshot its
\* hydration reads: a position in cDAI (2 cTokens supplied, a debt of 1
\* written at index 1), nothing in the other markets.
RescanUsers == {"0xa1"}
RescanSnapshots ==
    {[s \in cTokenSymbols |->
        IF s = "cDAI" THEN [cTokenBalance |-> 2, borrowBalance |-> 1,
                            borrowIndex |-> 1]
        ELSE [cTokenBalance |-> 0, borrowBalance |-> 0, borrowIndex |-> 0]]}

\* The registry, initialised by one call of init(), scanned again and
\* again, each scan recorded.
NextRescan ==
    \/ initPc = "new" /\ InitCall
    \/ \E s \in cTokenSymbols, i \in HeadIndices : FetchBorrowIndex(s, i)
    \/ \E call \in 1..MaxInits : subscribe(call)
    \/ \E a \in RescanUsers : Push(<<a>>)
    \/ \E a \in RescanUsers, snap \in RescanSnapshots : FetchDone(a, snap)
    \/ \E ev \in AccrueInterestEvents : AccrueInterestData(ev)
    \/ ScanCall
    \/ \E s \in cTokenSymbols, r \in ExchangeRateValues :
           ExchangeRateRead(s, r)
    \/ \E s \in cTokenSymbols, r \in ExchangeRateValues,
          c \in Comptrollers, p \in PriceLedgers : ScanRecorded(s, r, c, p)

SpecRescan == Init /\ [][NextRescan]_vars


(***************************************************************************)
(* Properties of the event callbacks, push and the index table.            *)
(***************************************************************************)
\* The accounts an event names.
Involved(ev) ==
    IF ev.kind = "Mint" THEN {ev.minter}
    ELSE IF ev.kind = "Redeem" THEN {ev.redeemer}
    ELSE IF ev.kind \in {"Borrow", "RepayBorrow", "LiquidateBorrow"}
         THEN {ev.borrower}
    ELSE IF ev.kind = "Transfer" THEN {ev.from, ev.to}
    ELSE {}

BorrowerEventKinds ==
    {"Mint", "Redeem", "Borrow", "RepayBorrow", "LiquidateBorrow", "Transfer"}

\* C1 (reorg inversion): once an event has been applied by its 'data'
\* callback and is then delivered again by the 'changed' callback, every
\* watched borrower's (supplied, borrowPrincipal, borrowIndexAtPrincipal) is
\* what it was immediately before the 'data' callback ran.
C1_ReorgInversion ==
    [][(/\ last.op = "data"
        /\ last.ev.kind \in BorrowerEventKinds
        /\ last'.op = "changed"
        /\ last'.ev = last.ev)
          => borrowers' = pre
      ]_vars

\* C2 (transfer deduplication): a Transfer whose from or to is the cToken
\* contract never changes a borrower; so a Mint(addr, x) followed by its
\* paired Transfer leaves supplied[addr] exactly x above what it was before
\* the Mint, and a Redeem(addr, x) of a balance of at least x followed by
\* its paired Transfer leaves it exactly x below.
C2_TransferDedup ==
    [][/\ (/\ last'.op \in {"data", "changed"}
           /\ last'.ev.kind = "Transfer"
           /\ CTokenAddress(last'.ev.symbol) \in {last'.ev.from, last'.ev.to})
          => borrowers' = borrowers
       /\ (/\ last'.op = "data"
           /\ last'.paired = "Mint"
           /\ last.ev.minter \in DOMAIN pre)
          => borrowers'[last.ev.minter].supplied[last.ev.symbol] =
                 pre[last.ev.minter].supplied[last.ev.symbol]
                     + last.ev.mintTokens
       /\ (/\ last'.op = "data"
           /\ last'.paired = "Redeem"
           /\ last.ev.redeemer \in DOMAIN pre
           /\ pre[last.ev.redeemer].supplied[last.ev.symbol]
                  >= last.ev.redeemTokens)
          => borrowers'[last.ev.redeemer].supplied[last.ev.symbol] =
                 pre[last.ev.redeemer].supplied[last.ev.symbol]
                     - last.ev.redeemTokens
      ]_vars

\* C3 (index monotonicity): an AccrueInterest event whose borrowIndex is
\* below the market's entry of the borrow index table leaves the entry
\* unchanged, so that once init has subscribed no entry ever decreases.
C3_IndexMonotonic ==
    [][/\ (/\ last'.op = "data"
           /\ last'.ev.kind = "AccrueInterest"
           /\ last'.ev.borrowIndex < borrowIndices[last'.ev.symbol])
          => borrowIndices' = borrowIndices
       /\ (subscriptions > 0 /\ last'.op = "data")
          => \A s \in cTokenSymbols : borrowIndices'[s] >= borrowIndices[s]
      ]_vars

\* C4 (push leaves existing entries untouched): a push keeps, for every
\* address already watched, its replica as it is and starts no new
\* hydration read for it.
C4_PushKeepsExisting ==
    [][last'.op = "push"
          => \A a \in DOMAIN borrowers :
                /\ borrowers'[a] = borrowers[a]
                /\ a \in hydrating' => a \in hydrating
      ]_vars

\* C5 (unwatched addresses): a Mint, Redeem, Borrow, RepayBorrow,
\* LiquidateBorrow or Transfer callback ('data' or 'changed') none of whose
\* accounts is watched changes neither the borrowers map, nor its keys, nor
\* any replica, nor the borrow index table.
C5_UnwatchedDropped ==
    [][(/\ last'.op \in {"data", "changed"}
        /\ last'.ev.kind \in BorrowerEventKinds
        /\ Involved(last'.ev) \cap DOMAIN borrowers = {})
          => /\ borrowers' = borrowers
             /\ keys' = keys
             /\ borrowIndices' = borrowIndices
             /\ hydrating' = hydrating
      ]_vars

\* A 'changed' callback has run for a Transfer between two unwatched
\* accounts while another account is watched and holds a position.
C5_Witness ==
    /\ last.op = "changed"
    /\ last.ev.kind = "Transfer"
    /\ {last.ev.from, last.ev.to} \cap DOMAIN borrowers = {}
    /\ CTokenAddress(last.ev.symbol) \notin {last.ev.from, last.ev.to}
    /\ \E a \in DOMAIN borrowers : borrowers[a] # NewBorrower


(***************************************************************************)
(* Properties of scan and of hydration.                                    *)
(***************************************************************************)
\* The addresses of the candidates scan returned.
CandidateAddresses == {candidates[i].address : i \in 1..Len(candidates)}

\* scan's evaluation found the borrower liquidatable (health below 1).
Liquidatable(a) ==
    /\ a \in DOMAIN evaluated
    /\ evaluated[a] # Null
    /\ lt(evaluated[a].health, Big(1, 1))

\* C6 (candidate soundness): every candidate scan returned belongs to a
\* watched borrower whose evaluated health is below 1 and carries an
\* expected revenue above 0; a borrower without debt or with health of at
\* least 1 is not among the candidates.
C6_CandidateSoundness ==
    scanPc = "done" =>
        /\ \A i \in 1..Len(candidates) :
              /\ Liquidatable(candidates[i].address)
              /\ gt(candidates[i].expectedRevenue.nearest, Big(0, 1))
        /\ \A a \in DOMAIN evaluated :
              ~Liquidatable(a) => a \notin CandidateAddresses

\* C7 (hydration precedes use): no event callback changes a borrower whose
\* hydration read is still in flight, the hydration write lands on a replica
\* no event has changed since push created it, and no scan evaluates a
\* borrower whose hydration read is still in flight.
C7_HydrationPrecedesUse ==
    [][/\ last'.op \in {"data", "changed"}
          => \A a \in DOMAIN borrowers \cap hydrating :
                borrowers'[a] = borrowers[a]
       /\ last'.op = "fetch"
          => \A a \in hydrating \ hydrating' : borrowers[a] = NewBorrower
       /\ last'.op = "scan" => hydrating = {}
      ]_vars

\* C8 (snapshot consistency of scan): no event callback runs between the
\* moment scan has received an exchange rate and the moment it reads the
\* borrow indices and the borrowers.
C8_ScanAtomic == scanPc = "done" => ~interleaved

C10_StaleDropsOnlyAffected ==
    scanPc = "done" =>
        \A a \in DOMAIN evaluated :
            Liquidatable(a) =>
                (a \in CandidateAddresses <=> evaluated[a].postable # Null)

\* A scan has returned with one liquidatable borrower left out for its
\* stale attestation, visited before another one that is reported.
C10_Witness ==
    /\ scanPc = "done"
    /\ Len(keys) = 2
    /\ Liquidatable(keys[1])
    /\ evaluated[keys[1]].postable = Null
    /\ Liquidatable(keys[2])
    /\ keys[2] \in CandidateAddresses
    /\ keys[1] \notin CandidateAddresses


(***************************************************************************)
(* Properties of the borrow index table as scan reads it.                  *)
(***************************************************************************)
\* The entry of the market has been written, by init (a read at the head
\* block has returned) or by an AccrueInterest callback.  Until then it is
\* the Big('0') of the field initialiser, which no index of the chain is.
Populated(symbol) == borrowIndices[symbol] # 0

\* C11 (uninitialized index): a scan never evaluates a borrower while the
\* borrow index of some market has never been populated; such a scan fails
\* instead of returning.
C11_UninitializedIndex ==
    [][(last'.op = "scan" /\ keys # <<>>)
          => \A s \in cTokenSymbols : Populated(s)
      ]_vars


(***************************************************************************)
(* Addresses written in different letter case.                             *)
(***************************************************************************)
\* Two spellings of one account's address: all lowercase, and with the hex
\* letter in upper case (as a checksummed address has it).
Spellings == {"0xa1", "0xA1"}

\* String.prototype.toLowerCase on the addresses of the model.
toLowerCase(address) == IF address = "0xA1" THEN "0xa1" ELSE address

\* Mint events whose minter field carries either spelling.
SpellingMintEvents ==
    [kind : {"Mint"}, symbol : cTokenSymbols, minter : Spellings,
     mintTokens : Amounts]

\* The registry pushed and notified with both spellings.
NextSpellings ==
    \/ InitCall
    \/ \E s \in cTokenSymbols, i \in HeadIndices : FetchBorrowIndex(s, i)
    \/ \E call \in 1..MaxInits : subscribe(call)
    \/ \E a \in Spellings : Push(<<a>>)
    \/ \E a \in Spellings, snap \in Snapshots : FetchDone(a, snap)
    \/ \E ev \in SpellingMintEvents : MintData(ev)

SpecSpellings == Init /\ [][NextSpellings]_vars

\* C12 (case-insensitive addresses): two keys of the borrowers map never
\* differ only in letter case, and a Mint whose minter is any spelling of a
\* watched address adds mintTokens to that address's supplied balance.
C12_CaseInsensitive ==
    [][/\ \A a, b \in DOMAIN borrowers' :
              toLowerCase(a) = toLowerCase(b) => a = b
       /\ (last'.op = "data" /\ last'.ev.kind = "Mint")
          => \A a \in DOMAIN borrowers :
                toLowerCase(a) = toLowerCase(last'.ev.minter)
                  => borrowers'[a].supplied[last'.ev.symbol] =
                         borrowers[a].supplied[last'.ev.symbol]
                             + last'.ev.mintTokens
      ]_vars


(***************************************************************************)
(* Events with their position in the chain.                                *)
(***************************************************************************)
\* The blocks the delivered logs belong to, and their indices in a block.
BlockNumbers == {1, 2}
LogIndices == {0, 1}

\* The fields of EventData that place a log in the chain.
Positioned(events) ==
    {[f \in DOMAIN ev \cup {"blockNumber", "logIndex"} |->
         IF f = "blockNumber" THEN b
         ELSE IF f = "logIndex" THEN i
         ELSE ev[f]] : ev \in events, b \in BlockNumbers, i \in LogIndices}

\* ev1 precedes ev2 in (blockNumber, logIndex) order.
Before(ev1, ev2) ==
    \/ ev1.blockNumber < ev2.blockNumber
    \/ ev1.blockNumber = ev2.blockNumber /\ ev1.logIndex < ev2.logIndex

\* What a subscription can deliver after the previous callback: a log of
\* the same market is another log (another position), and the subscription
\* of one kind delivers its own logs in chain order.  Subscriptions of
\* different kinds are independent of each other.
Deliverable(ev) ==
    (last.op = "data" /\ last.ev.symbol = ev.symbol)
        => /\ Before(last.ev, ev) \/ Before(ev, last.ev)
           /\ last.ev.kind = ev.kind => Before(last.ev, ev)

\* The registry, initialised by one call of init(), receiving
\* AccrueInterest, Mint and Borrow logs from their three subscriptions.
NextOrdering ==
    \/ initPc = "new" /\ InitCall
    \/ \E s \in cTokenSymbols, i \in HeadIndices : FetchBorrowIndex(s, i)
    \/ \E call \in 1..MaxInits : subscribe(call)
    \/ \E a \in Users : Push(<<a>>)
    \/ \E a \in Users, snap \in Snapshots : FetchDone(a, snap)
    \/ \E ev \in Positioned(AccrueInterestEvents) :
           Deliverable(ev) /\ AccrueInterestData(ev)
    \/ \E ev \in Positioned(MintEvents) : Deliverable(ev) /\ MintData(ev)
    \/ \E ev \in Positioned(BorrowEvents) : Deliverable(ev) /\ BorrowData(ev)

SpecOrdering == Init /\ [][NextOrdering]_vars

\* C13 (event ordering within a market): of two callbacks run one after the
\* other for logs of the same market, the second log is the later one in
\* (blockNumber, logIndex) order.
C13_EventOrdering ==
    [][(/\ last.op = "data"
        /\ last'.op = "data"
        /\ last'.ev.symbol = last.ev.symbol)
          => Before(last.ev, last'.ev)
      ]_vars


(***************************************************************************)
(* Balances driven to zero, and scans of the result.                       *)
(***************************************************************************)
\* The one account pushed where saturation is explored; the other user is
\* never watched.
SaturationUsers == {"0xa1"}

\* The registry, initialised by one call of init(), receiving the events
\* that decrease supplied, with scans.
NextSaturation ==
    \/ initPc = "new" /\ InitCall
    \/ \E s \in cTokenSymbols, i \in HeadIndices : FetchBorrowIndex(s, i)
    \/ \E call \in 1..MaxInits : subscribe(call)
    \/ \E a \in SaturationUsers : Push(<<a>>)
    \/ \E a \in SaturationUsers, snap \in Snapshots : FetchDone(a, snap)
    \/ \E ev \in RedeemEvents : RedeemData(ev)
    \/ \E ev \in LiquidateBorrowEvents : LiquidateBorrowData(ev)
    \/ \E ev \in TransferEvents : TransferData(ev)
    \/ ScanCall
    \/ \E s \in cTokenSymbols, r \in ExchangeRateValues :
           ExchangeRateRead(s, r)
    \/ \E s \in cTokenSymbols, r \in ExchangeRateValues,
          c \in Comptrollers, p \in PriceLedgers :
           Scan(s, r, c, p) /\ UNCHANGED scanned

SpecSaturation == Init /\ [][NextSaturation]_vars

\* The full snapshots of an account that holds a position in every market.
PositionSnapshots ==
    {snap \in Snapshots : \A s \in cTokenSymbols : snap[s].cTokenBalance > 0}

\* The registry with one account watched and the other never pushed,
\* receiving every kind of borrower log on both sides of its subscriptions,
\* with init() called again once the call before it has subscribed.
NextUnwatched ==
    \/ initPending = <<>> /\ InitCall
    \/ \E s \in cTokenSymbols, i \in HeadIndices : FetchBorrowIndex(s, i)
    \/ \E call \in 1..MaxInits : subscribe(call)
    \/ \E a \in SaturationUsers : Push(<<a>>)
    \/ \E a \in SaturationUsers, snap \in PositionSnapshots :
           FetchDone(a, snap)
    \/ \E ev \in MintEvents : MintData(ev)
    \/ \E ev \in MintEvents : MintChanged(ev)
    \/ \E ev \in RedeemEvents : RedeemData(ev)
    \/ \E ev \in RedeemEvents : RedeemChanged(ev)
    \/ \E ev \in BorrowEvents : BorrowData(ev)
    \/ \E ev \in BorrowEvents : BorrowChanged(ev)
    \/ \E ev \in RepayBorrowEvents : RepayBorrowData(ev)
    \/ \E ev \in RepayBorrowEvents : RepayBorrowChanged(ev)
    \/ \E ev \in LiquidateBorrowEvents : LiquidateBorrowData(ev)
    \/ \E ev \in LiquidateBorrowEvents : LiquidateBorrowChanged(ev)
    \/ \E ev \in TransferEvents : TransferData(ev)
    \/ \E ev \in TransferEvents : TransferChanged(ev)

SpecUnwatched == Init /\ [][NextUnwatched]_vars

\* A Big that is a number (no division by zero produced it) and is not
\* negative.
WellDefined(x) == x[2] > 0 /\ x[1] >= 0

MaxSends == 3

\* What provider.eth.getChainId() can answer: mainnet, ropsten, ganache, and
\* a chain the switch of init() has no case for.
ChainIDs == {1, 3, 1337, 4}

\* The nonces and gas prices of the transactions sent.
Nonces == {0, 1}
GasPriceValues == {Big(0, 1), Big(10, 1), Big(25, 1)}
\* The transactions handed to signAndSend (ITx; only gasPrice is recorded).
Txs == [gasPrice : GasPriceValues]

\* The registry is left as it is by the Wallet's methods.
WalletFrame ==
    /\ pre' = NoBorrowers
    /\ UNCHANGED <<borrowers, keys, borrowIndices, hydrating, initPc,
                   initPending, subscriptions, nEvents, scanVars, interleaved,
                   scanned>>

\* init() is called: getChainId() is awaited.
WalletInitCall ==
    /\ walletPc # "awaiting"
    /\ walletPc' = "awaiting"
    /\ last' = [op |-> "walletInitCall", ev |-> NoEvent]
    /\ UNCHANGED <<opts, gasPrices, chainID, sends, minGasPrice>>
    /\ WalletFrame

\* getChainId() has answered: the switch of init(), which then returns.
WalletInit(id) ==
    /\ walletPc = "awaiting"
    /\ chainID' = id
    /\ opts' = IF id \in {1337, 1}
               THEN [common |-> [chain |-> "mainnet",
                                 hardfork |-> "petersburg"]]
               ELSE IF id = 3
               THEN [common |-> [chain |-> "ropsten",
                                 hardfork |-> "petersburg"]]
               ELSE opts
    /\ walletPc' = "resolved"
    /\ last' = [op |-> "walletInit", ev |-> NoEvent]
    /\ UNCHANGED <<gasPrices, sends, minGasPrice>>
    /\ WalletFrame

\* signAndSend(tx, nonce): the gas price is recorded under the nonce, then
\* the transaction is signed and sent.
signAndSend(tx, nonce) ==
    /\ Len(sends) < MaxSends
    /\ gasPrices' = IF "gasPrice" \in DOMAIN tx
                    THEN [n \in DOMAIN gasPrices \cup {nonce} |->
                            IF n = nonce THEN tx.gasPrice ELSE gasPrices[n]]
                    ELSE gasPrices
    /\ sends' = Append(sends, [nonce |-> nonce, gasPrice |-> tx.gasPrice])
    /\ last' = [op |-> "signAndSend", ev |-> NoEvent]
    /\ UNCHANGED <<opts, walletPc, chainID, minGasPrice>>
    /\ WalletFrame

\* minGasPriceFor with the factor of an increase of ten per cent.
minGasPriceForTenPerCent(nonce) ==
    IF nonce \in DOMAIN gasPrices
    THEN times(gasPrices[nonce], Big(110, 100))
    ELSE Big(0, 1)

\* minGasPriceFor(nonce): the value returned.
minGasPriceFor(nonce) ==
    IF nonce \in DOMAIN gasPrices
    THEN times(gasPrices[nonce], Big(112, 100))
    ELSE Big(0, 1)

\* A call of minGasPriceFor(nonce), its result kept.
MinGasPriceForCall(nonce) ==
    /\ minGasPrice' = [nonce |-> nonce, price |-> minGasPriceFor(nonce)]
    /\ last' = [op |-> "minGasPriceFor", ev |-> NoEvent]
    /\ UNCHANGED <<opts, gasPrices, walletPc, chainID, sends>>
    /\ WalletFrame

NextWallet ==
    \/ WalletInitCall
    \/ \E id \in ChainIDs : WalletInit(id)
    \/ \E tx \in Txs, nonce \in Nonces : signAndSend(tx, nonce)
    \/ \E nonce \in Nonces : MinGasPriceForCall(nonce)

SpecWallet == Init /\ [][NextWallet]_vars

\* The chain IDs the transaction manager supports.
SupportedChainIDs == {1, 3, 1337}

\* C15 (unknown chain ID is fatal at init): when getChainId() answers a
\* supported chain ID, init returns with opts defined; when it answers any
\* other chain ID, init does not return normally.
C15_UnknownChainFatal ==
    [][last'.op = "walletInit"
          => IF chainID' \in SupportedChainIDs
             THEN walletPc' = "resolved" /\ opts' # Undefined
             ELSE walletPc' # "resolved"
      ]_vars


\* The positions in sends of the calls made for the nonce.
SendsFor(nonce) == {i \in 1..Len(sends) : sends[i].nonce = nonce}

\* The gas price of the most recent signAndSend call for the nonce.
LastSentPrice(nonce) ==
    sends[CHOOSE i \in SendsFor(nonce) : \A j \in SendsFor(nonce) : j <= i]
        .gasPrice

\* C16 (minGasPriceFor): a call of minGasPriceFor(nonce) returns 0 when no
\* signAndSend was ever made for the nonce and otherwise 112/100 of the gas
\* price of the most recent one; a signAndSend for a nonce leaves the
\* recorded price of every other nonce as it is; and no recorded entry is
\* ever removed.
C16_MinGasPriceFor ==
    [][/\ last'.op = "minGasPriceFor"
          => LET n == minGasPrice'.nonce
                 r == minGasPrice'.price
             IN  IF SendsFor(n) = {}
                 THEN r[1] = 0
                 ELSE r[1] * 100 * LastSentPrice(n)[2] =
                          112 * LastSentPrice(n)[1] * r[2]
       /\ last'.op = "signAndSend"
          => \A m \in Nonces \ {sends'[Len(sends')].nonce} :
                /\ m \in DOMAIN gasPrices' <=> m \in DOMAIN gasPrices
                /\ m \in DOMAIN gasPrices => gasPrices'[m] = gasPrices[m]
       /\ DOMAIN gasPrices \subseteq DOMAIN gasPrices'
      ]_vars

\* minGasPriceFor has just returned 112/100 of the price of the second
\* signAndSend made for its nonce, another nonce having been sent since.
C16_Witness ==
    /\ last.op = "minGasPriceFor"
    /\ Len(sends) = MaxSends
    /\ sends[1].nonce = minGasPrice.nonce
    /\ sends[2].nonce = minGasPrice.nonce
    /\ sends[1].gasPrice # sends[2].gasPrice
    /\ sends[Len(sends)].nonce # minGasPrice.nonce
    /\ minGasPrice.price = Big(28, 1)
    /\ sends[2].gasPrice = Big(25, 1)


(***************************************************************************)
(* Properties of init, of the indices scan uses, of transfers and of the   *)
(* list scan returns.                                                      *)
(***************************************************************************)
\* C17 (init ordering): init subscribes only after its read of every
\* market's borrow index, made at the head block, has been written; so an
\* AccrueInterest callback runs only once every index has been written and
\* no read of init is outstanding, and init writes an index only while no
\* subscription exists and no callback has run: an index read by init
\* never replaces one that an AccrueInterest callback wrote.
C17_InitOrdering ==
    [][/\ last'.op = "subscribe"
          => \A s \in cTokenSymbols : borrowIndices[s] \in HeadIndices
       /\ (last'.op = "data" /\ last'.ev.kind = "AccrueInterest")
          => /\ \A s \in cTokenSymbols : Populated(s)
             /\ initPending = <<>>
       /\ last'.op = "fetchBorrowIndices"
          => /\ subscriptions = 0
             /\ nEvents = 0
      ]_vars

\* An AccrueInterest callback has just replaced the index that init read
\* for one market at the head block, the other market's entry being the
\* one init wrote.
C17_Witness ==
    /\ last.op = "data"
    /\ last.ev.kind = "AccrueInterest"
    /\ subscriptions = 1
    /\ initPending = <<>>
    /\ borrowIndices[last.ev.symbol] = last.ev.borrowIndex
    /\ last.ev.borrowIndex \notin HeadIndices
    /\ \A s \in cTokenSymbols \ {last.ev.symbol} :
          borrowIndices[s] \in HeadIndices

\* The borrower holds the position of the healthy-borrower scenario in
\* market m and nothing elsewhere: 2 cTokens supplied, a principal of 1
\* written at index 1.
HealthyPosition(a, m) ==
    /\ borrowers[a].supplied =
           [s \in cTokenSymbols |-> IF s = m THEN 2 ELSE 0]
    /\ borrowers[a].borrowPrincipal =
           [s \in cTokenSymbols |-> IF s = m THEN 1 ELSE 0]
    /\ borrowers[a].borrowIndexAtPrincipal[m] = 1

\* C18 (accrual-driven liquidation): scan evaluates with the borrow index
\* the table holds when it evaluates.  With exchange rate 1, price 1 and
\* collateral factor 3/4, the borrower of the healthy scenario has health
\* 3/2 and is not reported while the index is 1, and has health 3/4 and is
\* reported (its attestation being postable) once an AccrueInterest event
\* has made the index 2.
C18_AccrualDriven ==
    [][last'.op = "scan"
          => \A a \in DOMAIN borrowers, m \in cTokenSymbols :
                (HealthyPosition(a, m) /\ exchangeRates'[m] = Big(1, 1))
                  => /\ borrowIndices[m] = 1
                        => /\ evaluated'[a].health = Big(3, 2)
                           /\ a \notin CandidateAddresses'
                     /\ borrowIndices[m] = 2
                        => /\ evaluated'[a].health = Big(3, 4)
                           /\ evaluated'[a].postable # Null
                                 => a \in CandidateAddresses'
      ]_vars

\* A scan has just reported the borrower of the healthy scenario, at health
\* 3/4, after an AccrueInterest event doubled the index of its market.
C18_Witness ==
    /\ last.op = "scan"
    /\ nEvents >= 1
    /\ \E a \in DOMAIN borrowers, m \in cTokenSymbols :
          /\ HealthyPosition(a, m)
          /\ borrowIndices[m] = 2
          /\ evaluated[a].health = Big(3, 4)
          /\ a \in CandidateAddresses

\* C19 (transfer between user accounts): a Transfer whose sides are both
\* user accounts takes amount from the supplied balance of a watched sender
\* (down to 0 at most) and adds amount to that of a watched receiver; with
\* both watched and distinct and the sender holding at least amount, the
\* sum of the two balances is unchanged; with sender and receiver the same
\* account, its balance is unchanged.
C19_UserTransfer ==
    [][(/\ last'.op = "data"
        /\ last'.ev.kind = "Transfer"
        /\ last'.ev.from \in Users
        /\ last'.ev.to \in Users)
          => LET from == last'.ev.from
                 to == last'.ev.to
                 m == last'.ev.symbol
                 amount == last'.ev.amount
             IN  /\ (Watched(from) /\ from # to)
                    => borrowers'[from].supplied[m] =
                         IF borrowers[from].supplied[m] >= amount
                         THEN borrowers[from].supplied[m] - amount
                         ELSE 0
                 /\ (Watched(to) /\ from # to)
                    => borrowers'[to].supplied[m] =
                         borrowers[to].supplied[m] + amount
                 /\ (/\ Watched(from)
                     /\ Watched(to)
                     /\ from # to
                     /\ borrowers[from].supplied[m] >= amount)
                    => borrowers'[from].supplied[m]
                           + borrowers'[to].supplied[m] =
                       borrowers[from].supplied[m]
                           + borrowers[to].supplied[m]
                 /\ (Watched(from) /\ from = to)
                    => borrowers'[from].supplied[m] =
                         borrowers[from].supplied[m]
      ]_vars

\* C20 (each watched borrower at most once): every candidate of the list a
\* scan returns has the address of a key of the borrowers map as it is when
\* the scan evaluates, and no two candidates of the list have the same
\* address.
C20_CandidatesDistinctWatched ==
    [][last'.op = "scan"
          => /\ \A i \in 1..Len(candidates') :
                   candidates'[i].address \in DOMAIN borrowers
             /\ \A i, j \in 1..Len(candidates') :
                   candidates'[i].address = candidates'[j].address => i = j
      ]_vars

\* A scan has just returned a candidate for each of the two watched
\* borrowers, in key order.
C20_Witness ==
    /\ last.op = "scan"
    /\ Len(keys) = 2
    /\ Len(candidates) = 2
    /\ candidates[1].address = keys[1]
    /\ candidates[2].address = keys[2]

=============================================================================
